---- MODULE Spec2Model ----
(***************************************************************************)
(* A model of the lifecycle coordination of @loopback/core's Application   *)
(* (packages/core/src/application.ts): the registration of servers and     *)
(* tagged bindings, the discovery and ordering of life cycle observer      *)
(* bindings, and the asynchronous start() / stop() passes over them.       *)
(*                                                                         *)
(* Strings that the code compares (tag values) are sequences of UTF-16     *)
(* code units, so that JavaScript's < and > on strings is the              *)
(* lexicographic order computed by StrLess.                                *)
(***************************************************************************)
EXTENDS Integers, Sequences, FiniteSets

VARIABLES
    registry,   \* the context's bindings, in the order find() visits them
    calls,      \* the start()/stop() calls under observation, oldest first
    issued,     \* how many start()/stop() calls have been issued
    inflight,   \* observer start/stop operations invoked and not yet settled
    journal,    \* the component(), server() and getServer() calls made, in order
    script      \* the run of the example's migrate script

vars == <<registry, calls, issued, inflight, journal, script>>

(***************************************************************************)
(* Bounds of the model.                                                    *)
(***************************************************************************)
MaxBindings == 3    \* bindings registered on top of the constructor's two
MaxCalls == 2       \* start()/stop() calls issued in one behaviour
MaxArgs == 2        \* arguments given to the migrate script
MaxJournal == MaxBindings + 1   \* component(), server() and getServer() calls recorded

(***************************************************************************)
(* Strings as code-unit sequences.                                         *)
(***************************************************************************)
EmptyStr == << >>
StrV0 == <<118, 48>>                            \* "v0"
StrV1 == <<118, 49>>                            \* "v1"
StrV10 == <<118, 49, 48>>                       \* "v10"
StrV2 == <<118, 50>>                            \* "v2"
StrUpperV == <<86>>                             \* "V"

Min(a, b) == IF a < b THEN a ELSE b

\* JavaScript's s < t on strings: the first differing code unit decides, and a
\* proper prefix is smaller.
StrLess(s, t) ==
    \/ /\ Len(s) < Len(t)
       /\ \A k \in 1..Len(s) : s[k] = t[k]
    \/ \E k \in 1..Min(Len(s), Len(t)) :
          /\ s[k] < t[k]
          /\ \A j \in 1..(k - 1) : s[j] = t[j]

StrGreater(s, t) == StrLess(t, s)

(***************************************************************************)
(* CoreBindings keys and tags (keys.ts), BindingType and BindingScope.     *)
(***************************************************************************)
Key(namespace, name) == <<namespace, name>>

APPLICATION_INSTANCE == Key("application", "instance")
APPLICATION_CONFIG == Key("application", "config")
SERVERS == "servers"
COMPONENTS == "components"
CONTROLLERS == "controllers"
SERVER_TAG == "server"
LIFE_CYCLE_OBSERVER_TAG == "lifeCycleObserver"
COMPONENT_TAG == "component"
CONTROLLER_TAG == "controller"
\* Binding.tag(name) maps the tag name to itself
SERVER_TAG_VALUE == <<115, 101, 114, 118, 101, 114>>            \* "server"
LIFE_CYCLE_OBSERVER_TAG_VALUE == <<108, 99, 111>>               \* stands for "lifeCycleObserver"
COMPONENT_TAG_VALUE == <<99, 111, 109, 112, 111, 110, 101, 110, 116>>          \* "component"
CONTROLLER_TAG_VALUE == <<99, 111, 110, 116, 114, 111, 108, 108, 101, 114>>    \* "controller"

CONSTANT_TYPE == "Constant"
CLASS_TYPE == "Class"
PROVIDER_TYPE == "Provider"
BindingTypes == {CONSTANT_TYPE, CLASS_TYPE, PROVIDER_TYPE}

TRANSIENT == "Transient"
SINGLETON == "Singleton"
BindingScopes == {TRANSIENT, SINGLETON}

\* What a binding resolves to: a value with start/stop, or one without.
OBSERVER == "observer"
PLAIN == "plain"
Values == {OBSERVER, PLAIN}

Errors == {"e1", "e2"}

(***************************************************************************)
(* Bindings.  tagMap is a set of <<tag name, tag value>> pairs with at     *)
(* most one pair per name.                                                 *)
(***************************************************************************)
Binding(key, type, scope, tagMap, value) ==
    [key |-> key, type |-> type, scope |-> scope, tagMap |-> tagMap, value |-> value]

HasTag(b, name) == \E p \in b.tagMap : p[1] = name

TagValue(b, name) == (CHOOSE p \in b.tagMap : p[1] = name)[2]

\* tagMap[name] != null
TagNotNull(b, name) == HasTag(b, name)

\* tagMap[name] used as a condition: undefined and '' are falsy
TagTruthy(b, name) == HasTag(b, name) /\ TagValue(b, name) # EmptyStr

\* tagMap[name] || ''
TagOrEmpty(b, name) == IF TagTruthy(b, name) THEN TagValue(b, name) ELSE EmptyStr

\* Binding.tag(name) and Binding.tag({name: value})
WithTag(b, name, val) ==
    [b EXCEPT !.tagMap = {p \in b.tagMap : p[1] # name} \cup {<<name, val>>}]

InScope(b, scope) == [b EXCEPT !.scope = scope]

Keys(reg) == {reg[k].key : k \in 1..Len(reg)}

(***************************************************************************)
(* Classes and optional arguments.  A class has a name (empty when the     *)
(* class is anonymous), has start/stop on its prototype or not, and its    *)
(* instances declare the controllers, servers and providers of a           *)
(* component.  An optional string argument is the set of the strings       *)
(* given: empty when the argument is left out.                             *)
(***************************************************************************)
Class(name, observer, controllers, servers, providers) ==
    [name |-> name, observer |-> observer, controllers |-> controllers,
     servers |-> servers, providers |-> providers]

\* A class that declares nothing.
ObserverClass(name) == Class(name, TRUE, << >>, << >>, << >>)
PlainClass(name) == Class(name, FALSE, << >>, << >>, << >>)

\* What an instance of the class is to isLifeCycleObserver.
InstanceOf(ctor) == IF ctor.observer THEN OBSERVER ELSE PLAIN

NoName == {}
Named(name) == {name}

\* name || fallback: an argument left out and the empty string are falsy.
NameOr(name, fallback) ==
    IF name = NoName \/ name = Named("") THEN fallback ELSE CHOOSE n \in name : TRUE

(***************************************************************************)
(* lifecycle.ts                                                            *)
(***************************************************************************)
\* Whether a class has the life cycle capability on its prototype.
isLifeCycleObserverClass(ctor) == ctor.observer

\* Whether a resolved value exposes the life cycle capability.
isLifeCycleObserver(value) == value = OBSERVER

\* The binding template that makes a binding take part in the life cycle.
asLifeCycleObserverBinding(b) ==
    InScope(WithTag(b, LIFE_CYCLE_OBSERVER_TAG, LIFE_CYCLE_OBSERVER_TAG_VALUE), SINGLETON)

(***************************************************************************)
(* Context: bind() and the binding's configuration.                        *)
(***************************************************************************)
\* this.bind(key): a new binding, transient and untagged until configured
NewBinding(key) == Binding(key, CLASS_TYPE, TRANSIENT, {}, PLAIN)

\* .to(value) and .toClass(ctor) / .toProvider(ctor)
To(b, value) == [b EXCEPT !.type = CONSTANT_TYPE, !.value = value]
ToClass(b, value) == [b EXCEPT !.type = CLASS_TYPE, !.value = value]
ToProvider(b, value) == [b EXCEPT !.type = PROVIDER_TYPE, !.value = value]

(***************************************************************************)
(* Application._sortLifeCycleObserverBindings                              *)
(***************************************************************************)
\* A comparator with the two outcomes exchanged.
TagCompareDescending(b1, b2) ==
    LET tag1 == TagOrEmpty(b1, SERVER_TAG)
        tag2 == TagOrEmpty(b2, SERVER_TAG)
    IN  IF StrGreater(tag1, tag2) THEN -1 ELSE IF StrLess(tag1, tag2) THEN 1 ELSE 0

\* The comparator given to Array.prototype.sort.
TagCompare(b1, b2) ==
    LET tag1 == TagOrEmpty(b1, SERVER_TAG)
        tag2 == TagOrEmpty(b2, SERVER_TAG)
    IN  IF StrGreater(tag1, tag2) THEN 1 ELSE IF StrLess(tag1, tag2) THEN -1 ELSE 0

\* One step of a sort that is not stable: b goes before the first element
\* that does not compare smaller than it.
InsertSortedBeforeEqual(s, b) ==
    LET later == {k \in 1..Len(s) : TagCompare(s[k], b) >= 0}
        at == IF later = {} THEN Len(s) + 1
              ELSE CHOOSE k \in later : \A j \in later : k <= j
    IN  SubSeq(s, 1, at - 1) \o <<b>> \o SubSeq(s, at, Len(s))

\* One step of a stable sort: b goes before the first element that compares
\* greater than it, and after every element that compares equal.
InsertSorted(s, b) ==
    LET later == {k \in 1..Len(s) : TagCompare(s[k], b) > 0}
        at == IF later = {} THEN Len(s) + 1
              ELSE CHOOSE k \in later : \A j \in later : k <= j
    IN  SubSeq(s, 1, at - 1) \o <<b>> \o SubSeq(s, at, Len(s))

RECURSIVE SortPrefix(_, _)
SortPrefix(s, n) == IF n = 0 THEN << >> ELSE InsertSorted(SortPrefix(s, n - 1), s[n])

\* The bindings left in the order find() returned them.
Unsorted(bindings) == bindings

_sortLifeCycleObserverBindings(bindings) == SortPrefix(bindings, Len(bindings))

(***************************************************************************)
(* Application._findLifeCycleObserverBindings                              *)
(***************************************************************************)
\* A filter that tests the tags only.
IsTaggedBinding(b) ==
    TagNotNull(b, LIFE_CYCLE_OBSERVER_TAG) \/ TagTruthy(b, SERVER_TAG)

\* The filter given to find().
IsLifeCycleObserverBinding(b) ==
    /\ (b.type = CONSTANT_TYPE \/ b.scope = SINGLETON)
    /\ (TagNotNull(b, LIFE_CYCLE_OBSERVER_TAG) \/ TagTruthy(b, SERVER_TAG))

\* this.find(filter) returns the bindings that pass the filter, in registry
\* order.
_findLifeCycleObserverBindings(reg) ==
    _sortLifeCycleObserverBindings(SelectSeq(reg, IsLifeCycleObserverBinding))

\* Array.prototype.reverse
Reverse(s) == [k \in 1..Len(s) |-> s[Len(s) + 1 - k]]

\* The migrate script before it is run.
NotRun == [pc |-> "not run"]

(***************************************************************************)
(* The state after new Application(): the application instance and its     *)
(* options, bound as untagged constants.                                   *)
(***************************************************************************)
Init ==
    /\ registry = << To(NewBinding(APPLICATION_INSTANCE), OBSERVER),
                     To(NewBinding(APPLICATION_CONFIG), PLAIN) >>
    /\ calls = << >>
    /\ issued = 0
    /\ inflight = {}
    /\ journal = << >>
    /\ script = NotRun

\* What the constructor binds.
OwnBindings == {APPLICATION_INSTANCE, APPLICATION_CONFIG}

CanBind(key) ==
    /\ Len(registry) < Cardinality(OwnBindings) + MaxBindings
    /\ key \notin Keys(registry)

(***************************************************************************)
(* Application.server(ctor, name) and Application.servers(ctors)           *)
(***************************************************************************)
\* A server binding that is tagged and nothing more.
ServerBindingTaggedOnly(name) ==
    WithTag(ToClass(NewBinding(Key(SERVERS, name)), OBSERVER), SERVER_TAG, SERVER_TAG_VALUE)

\* this.bind(key).toClass(ctor).tag(SERVER_TAG).apply(asLifeCycleObserverBinding)
ServerBinding(name) ==
    asLifeCycleObserverBinding(
        WithTag(ToClass(NewBinding(Key(SERVERS, name)), OBSERVER),
                SERVER_TAG, SERVER_TAG_VALUE))

\* const suffix = name || ctor.name; const key = `${CoreBindings.SERVERS}.${suffix}`
ServerKey(ctor, name) == Key(SERVERS, NameOr(name, ctor.name))

server(ctor, name) ==
    LET key == ServerKey(ctor, name)
    IN  /\ CanBind(key)
        /\ registry' = Append(registry, ServerBinding(key[2]))
        /\ journal' = Append(journal, [op |-> "server", ctor |-> ctor, name |-> name,
                                        key |-> key])
        /\ UNCHANGED <<calls, issued, inflight, script>>

(***************************************************************************)
(* this.bind(key).to...(...).inScope(scope).tag(...): a binding configured *)
(* by the application's user.                                              *)
(***************************************************************************)
bind(key, type, scope, tagMap, value) ==
    /\ CanBind(key)
    /\ registry' = Append(registry, Binding(key, type, scope, tagMap, value))
    /\ UNCHANGED <<calls, issued, inflight, journal, script>>

(***************************************************************************)
(* Application.start() and Application.stop().  A call runs up to its      *)
(* first await within the step that issues it; each later step is the      *)
(* settling of the promise the call awaits.  The application keeps nothing *)
(* about its calls; a call's record is what the properties observe of it:  *)
(*   id         the number of the call, in the order of issue,             *)
(*   bindings   the array the loop iterates over,                          *)
(*   seen       how many bindings the registry held when find() ran,       *)
(*   i, pc      the loop position and the await the call is suspended at,  *)
(*   resolved   the keys given to this.get(), in order,                    *)
(*   log        the <<operation, key>> invocations made, in order,         *)
(*   completed  the keys whose operation resolved, in order,               *)
(*   raised     the errors thrown into the call, with their origin,        *)
(*   err        the error the returned promise rejected with.              *)
(* The records kept are those of the calls that have not settled and of    *)
(* the last call that has.                                                 *)
(***************************************************************************)
NoError == "none"

Settled(c) == c.pc \in {"resolved", "rejected"}

Observed(cs) ==
    LET keep(k) == \/ ~Settled(cs[k])
                   \/ \A j \in (k + 1)..Len(cs) : ~Settled(cs[j])
        kept == {k \in 1..Len(cs) : keep(k)}
        \* the k-th smallest index kept
        nth(k) == CHOOSE j \in kept : Cardinality({h \in kept : h < j}) = k - 1
    IN  [k \in 1..Cardinality(kept) |-> cs[nth(k)]]

\* A loop that leaves out the last binding.
EnterLoopOffByOne(c, k) ==
    IF k < Len(c.bindings)
    THEN [c EXCEPT !.i = k, !.pc = "get", !.resolved = Append(@, c.bindings[k].key)]
    ELSE [c EXCEPT !.i = k, !.pc = "resolved"]

\* The call's state on entering the loop body for bindings[k] (this.get is
\* called), or on leaving the loop.
EnterLoop(c, k) ==
    IF k <= Len(c.bindings)
    THEN [c EXCEPT !.i = k, !.pc = "get", !.resolved = Append(@, c.bindings[k].key)]
    ELSE [c EXCEPT !.i = k, !.pc = "resolved"]

NewCall(op, bindings) ==
    EnterLoop([id |-> issued + 1, op |-> op, bindings |-> bindings,
               seen |-> Len(registry), i |-> 0, pc |-> "new", resolved |-> << >>,
               log |-> << >>, completed |-> << >>, raised |-> << >>,
               err |-> NoError], 1)

\* A start() that leaves out what an earlier start() has started.
startSkippingStarted ==
    LET earlier == UNION {{calls[n].completed[k] : k \in 1..Len(calls[n].completed)} :
                            n \in {m \in 1..Len(calls) : calls[m].op = "start"}}
    IN  /\ issued < MaxCalls
        /\ issued' = issued + 1
        /\ calls' = Append(Observed(calls),
                           NewCall("start",
                                   SelectSeq(_findLifeCycleObserverBindings(registry),
                                             LAMBDA b : b.key \notin earlier)))
        /\ UNCHANGED <<registry, inflight, journal, script>>

\* A start() whose sort is made on the registry's own table.
startSortingInPlace ==
    /\ issued < MaxCalls
    /\ issued' = issued + 1
    /\ calls' = Append(Observed(calls),
                       NewCall("start", _findLifeCycleObserverBindings(registry)))
    /\ registry' = _sortLifeCycleObserverBindings(registry)
    /\ UNCHANGED <<inflight, journal, script>>

start ==
    /\ issued < MaxCalls
    /\ issued' = issued + 1
    /\ calls' = Append(Observed(calls),
                       NewCall("start", _findLifeCycleObserverBindings(registry)))
    /\ UNCHANGED <<registry, inflight, journal, script>>

\* A stop() that iterates in the order of start().
stopInStartOrder ==
    /\ issued < MaxCalls
    /\ issued' = issued + 1
    /\ calls' = Append(Observed(calls),
                       NewCall("stop", _findLifeCycleObserverBindings(registry)))
    /\ UNCHANGED <<registry, inflight, journal, script>>

stop ==
    /\ issued < MaxCalls
    /\ issued' = issued + 1
    /\ calls' = Append(Observed(calls),
                       NewCall("stop", Reverse(_findLifeCycleObserverBindings(registry))))
    /\ UNCHANGED <<registry, inflight, journal, script>>

Operation(c) == [call |-> c.id, key |-> c.bindings[c.i].key, op |-> c.op]

\* What is thrown at an await: the error, and where it came from.
Thrown(c, by, e) == [key |-> c.bindings[c.i].key, by |-> by, err |-> e]

\* The operation is invoked and the loop goes on without awaiting it.
GetResolvesNoAwait(n) ==
    /\ n \in 1..Len(calls)
    /\ calls[n].pc = "get"
    /\ LET c == calls[n]
           b == c.bindings[c.i]
       IN  IF isLifeCycleObserver(b.value)
           THEN /\ calls' = [calls EXCEPT ![n] =
                                EnterLoop([c EXCEPT !.log = Append(@, <<c.op, b.key>>)],
                                          c.i + 1)]
                /\ inflight' = inflight \cup {Operation(c)}
           ELSE /\ calls' = [calls EXCEPT ![n] = EnterLoop(c, c.i + 1)]
                /\ UNCHANGED inflight
    /\ UNCHANGED <<registry, issued, journal, script>>

\* The operation is invoked without the capability test: on a value that has
\* no start/stop the invocation throws.
GetResolvesNoTest(n) ==
    /\ n \in 1..Len(calls)
    /\ calls[n].pc = "get"
    /\ LET c == calls[n]
           b == c.bindings[c.i]
       IN  IF isLifeCycleObserver(b.value)
           THEN /\ calls' = [calls EXCEPT ![n] =
                                [c EXCEPT !.pc = "await",
                                          !.log = Append(@, <<c.op, b.key>>)]]
                /\ inflight' = inflight \cup {Operation(c)}
           ELSE /\ calls' = [calls EXCEPT ![n] =
                                [c EXCEPT !.pc = "rejected", !.err = "TypeError",
                                          !.raised = Append(@, Thrown(c, c.op, "TypeError"))]]
                /\ UNCHANGED inflight
    /\ UNCHANGED <<registry, issued, journal, script>>

\* await this.get(binding.key) resolves: the capability test, and the
\* invocation of observer.start() / observer.stop()
GetResolves(n) ==
    /\ n \in 1..Len(calls)
    /\ calls[n].pc = "get"
    /\ LET c == calls[n]
           b == c.bindings[c.i]
       IN  IF isLifeCycleObserver(b.value)
           THEN /\ calls' = [calls EXCEPT ![n] =
                                [c EXCEPT !.pc = "await",
                                          !.log = Append(@, <<c.op, b.key>>)]]
                /\ inflight' = inflight \cup {Operation(c)}
           ELSE /\ calls' = [calls EXCEPT ![n] = EnterLoop(c, c.i + 1)]
                /\ UNCHANGED inflight
    /\ UNCHANGED <<registry, issued, journal, script>>

\* await this.get(binding.key) rejects
GetRejects(n, e) ==
    /\ n \in 1..Len(calls)
    /\ calls[n].pc = "get"
    /\ LET c == calls[n]
       IN  calls' = [calls EXCEPT ![n] =
                        [c EXCEPT !.pc = "rejected", !.err = e,
                                  !.raised = Append(@, Thrown(c, "get", e))]]
    /\ UNCHANGED <<registry, issued, inflight, journal, script>>

\* A loop that makes the discovery query anew after each operation.
OperationResolvesQueriesAnew(n) ==
    /\ n \in 1..Len(calls)
    /\ calls[n].pc = "await"
    /\ LET c == calls[n]
           found == _findLifeCycleObserverBindings(registry)
           anew == IF c.op = "start" THEN found ELSE Reverse(found)
       IN  /\ inflight' = inflight \ {Operation(c)}
           /\ calls' = [calls EXCEPT ![n] =
                           EnterLoop([c EXCEPT !.completed = Append(@, c.bindings[c.i].key),
                                               !.bindings = anew],
                                     c.i + 1)]
    /\ UNCHANGED <<registry, issued, journal, script>>

\* await observer.start() / observer.stop() resolves
OperationResolves(n) ==
    /\ n \in 1..Len(calls)
    /\ calls[n].pc = "await"
    /\ LET c == calls[n]
       IN  /\ inflight' = inflight \ {Operation(c)}
           /\ calls' = [calls EXCEPT ![n] =
                           EnterLoop([c EXCEPT !.completed = Append(@, c.bindings[c.i].key)],
                                     c.i + 1)]
    /\ UNCHANGED <<registry, issued, journal, script>>

\* On a failure, stop is invoked on every observer the call has started.
OperationRejectsRollsBack(n, e) ==
    /\ n \in 1..Len(calls)
    /\ calls[n].pc = "await"
    /\ LET c == calls[n]
           undo == [k \in 1..Len(c.completed) |->
                       <<"stop", c.completed[Len(c.completed) + 1 - k]>>]
       IN  /\ inflight' = inflight \ {Operation(c)}
           /\ calls' = [calls EXCEPT ![n] =
                           [c EXCEPT !.pc = "rejected", !.err = e, !.log = @ \o undo,
                                     !.raised = Append(@, Thrown(c, c.op, e))]]
    /\ UNCHANGED <<registry, issued, journal, script>>

\* The error is replaced by one of the application's own.
OperationRejectsWrapped(n, e) ==
    /\ n \in 1..Len(calls)
    /\ calls[n].pc = "await"
    /\ LET c == calls[n]
       IN  /\ inflight' = inflight \ {Operation(c)}
           /\ calls' = [calls EXCEPT ![n] =
                           [c EXCEPT !.pc = "rejected", !.err = "lifecycle error",
                                     !.raised = Append(@, Thrown(c, c.op, e))]]
    /\ UNCHANGED <<registry, issued, journal, script>>

\* await observer.start() / observer.stop() rejects
OperationRejects(n, e) ==
    /\ n \in 1..Len(calls)
    /\ calls[n].pc = "await"
    /\ LET c == calls[n]
       IN  /\ inflight' = inflight \ {Operation(c)}
           /\ calls' = [calls EXCEPT ![n] =
                           [c EXCEPT !.pc = "rejected", !.err = e,
                                     !.raised = Append(@, Thrown(c, c.op, e))]]
    /\ UNCHANGED <<registry, issued, journal, script>>

(***************************************************************************)
(* Context.bind(key) as the registry's contract has it: keys are unique,   *)
(* and binding a key that is bound is an error that changes nothing.       *)
(***************************************************************************)
DuplicateKey == "duplicate key"
NotBound == "not bound"

Added(reg, b) ==
    IF b.key \in Keys(reg)
    THEN [registry |-> reg, error |-> DuplicateKey]
    ELSE [registry |-> Append(reg, b), error |-> NoError]

\* The bindings added one after the other, up to the first error.
RECURSIVE AddedAll(_, _)
AddedAll(reg, bs) ==
    IF bs = << >> THEN [registry |-> reg, error |-> NoError]
    ELSE LET r == Added(reg, Head(bs))
         IN  IF r.error # NoError THEN r ELSE AddedAll(r.registry, Tail(bs))

(***************************************************************************)
(* Application.controller(controllerCtor, name)                            *)
(***************************************************************************)
ControllerBinding(ctor, name) ==
    WithTag(ToClass(NewBinding(Key(CONTROLLERS, NameOr(name, ctor.name))), InstanceOf(ctor)),
            CONTROLLER_TAG, CONTROLLER_TAG_VALUE)

(***************************************************************************)
(* Application.component(componentCtor, name)                              *)
(***************************************************************************)
\* A component binding made a life cycle observer whatever its class.
ComponentBindingAlwaysObserver(ctor, name) ==
    asLifeCycleObserverBinding(
        WithTag(InScope(ToClass(NewBinding(Key(COMPONENTS, NameOr(name, ctor.name))),
                                InstanceOf(ctor)),
                        SINGLETON),
                COMPONENT_TAG, COMPONENT_TAG_VALUE))

\* name = name || componentCtor.name; `${CoreBindings.COMPONENTS}.${name}`
ComponentKey(ctor, name) == Key(COMPONENTS, NameOr(name, ctor.name))

\* this.bind(componentKey).toClass(componentCtor).inScope(SINGLETON)
\*     .tag(COMPONENT_TAG), and asLifeCycleObserverBinding for an observer class
ComponentBinding(ctor, name) ==
    LET binding == WithTag(InScope(ToClass(NewBinding(ComponentKey(ctor, name)),
                                           InstanceOf(ctor)),
                                   SINGLETON),
                           COMPONENT_TAG, COMPONENT_TAG_VALUE)
    IN  IF isLifeCycleObserverClass(ctor)
        THEN asLifeCycleObserverBinding(binding)
        ELSE binding

\* What mountComponent binds for an instance: its controllers, its servers
\* and its providers, each through the registration of a single item.
Declared(ctor) ==
    [k \in 1..Len(ctor.controllers) |-> ControllerBinding(ctor.controllers[k], NoName)]
    \o [k \in 1..Len(ctor.servers) |-> ServerBinding(ServerKey(ctor.servers[k], NoName)[2])]
    \o [k \in 1..Len(ctor.providers) |->
           ToProvider(NewBinding(ctor.providers[k]), PLAIN)]

mountComponent(reg, ctor) == AddedAll(reg, Declared(ctor))

\* A component() that binds over a key that is bound.
componentRebinds(ctor, name) ==
    LET binding == ComponentBinding(ctor, name)
        others == SelectSeq(registry, LAMBDA b : b.key # binding.key)
        mounted == mountComponent(Append(others, binding), ctor)
    IN  /\ Len(journal) < MaxJournal
        /\ Len(mounted.registry) <= Cardinality(OwnBindings) + MaxBindings
        /\ registry' = mounted.registry
        /\ journal' = Append(journal, [op |-> "component", ctor |-> ctor, name |-> name,
                                        key |-> binding.key, error |-> mounted.error])
        /\ UNCHANGED <<calls, issued, inflight, script>>

component(ctor, name) ==
    LET binding == ComponentBinding(ctor, name)
        bound == Added(registry, binding)
        mounted == IF bound.error # NoError THEN bound
                   ELSE mountComponent(bound.registry, ctor)
    IN  /\ Len(journal) < MaxJournal
        /\ Len(mounted.registry) <= Cardinality(OwnBindings) + MaxBindings
        /\ registry' = mounted.registry
        /\ journal' = Append(journal, [op |-> "component", ctor |-> ctor, name |-> name,
                                        key |-> binding.key, error |-> mounted.error])
        /\ UNCHANGED <<calls, issued, inflight, script>>

(***************************************************************************)
(* Application.getServer(target)                                           *)
(***************************************************************************)
\* What getServer is called with: a string, or a constructor.
StringTarget(str) == [typeof |-> "string", str |-> str]
ClassTarget(ctor) == [typeof |-> "function", ctor |-> ctor]

\* A key that is always taken from the target's name property.
GetServerKeyByName(target) ==
    Key(SERVERS, IF target.typeof = "string" THEN "" ELSE target.ctor.name)

GetServerKey(target) ==
    IF target.typeof = "string"
    THEN Key(SERVERS, target.str)
    ELSE Key(SERVERS, target.ctor.name)

\* return await this.get<T>(key): the call settles with the server bound under
\* the key, or rejects when the key is not bound.
getServer(target) ==
    LET key == GetServerKey(target)
    IN  /\ Len(journal) < MaxJournal
        /\ journal' = Append(journal,
                             [op |-> "getServer", target |-> target, key |-> key,
                              error |-> IF key \in Keys(registry) THEN NoError
                                        ELSE NotBound])
        /\ UNCHANGED <<registry, calls, issued, inflight, script>>

(***************************************************************************)
(* examples/todo/src/migrate.ts: migrate(args), run as                     *)
(* migrate(process.argv).catch(...).  The file comes in two versions: the  *)
(* first passes the option as dropExistingSchema and exits with code 0     *)
(* when the migration is done, the second passes it as rebuild and         *)
(* returns.  trace is what the script has called and what it was answered. *)
(***************************************************************************)
FirstVersion == "dropExistingSchema, process.exit(0)"
SecondVersion == "rebuild"
Versions == {FirstVersion, SecondVersion}

\* The name under which the version's SchemaMigrationOptions has the option.
RebuildOption(version) ==
    IF version = FirstVersion THEN "dropExistingSchema" ELSE "rebuild"

\* args.includes('--rebuild')
Includes(args, str) == \E k \in 1..Len(args) : args[k] = str

Called(fn, options) == [ev |-> "call", fn |-> fn, options |-> options]
Answered(fn, err) == [ev |-> "settled", fn |-> fn, err |-> err]
Exited(code) == [ev |-> "exit", code |-> code]

\* migrate(process.argv), up to await app.boot()
migrate(version, args) ==
    /\ script.pc = "not run"
    /\ script' = [pc |-> "boot", version |-> version, args |-> args,
                  rebuild |-> Includes(args, "--rebuild"),
                  trace |-> <<Called("boot", {})>>]
    /\ UNCHANGED <<registry, calls, issued, inflight, journal>>

\* await app.boot() resolves: app.migrateSchema({rebuild}) is called
BootResolves ==
    /\ script.pc = "boot"
    /\ script' = [script EXCEPT
                    !.pc = "migrateSchema",
                    !.trace = @ \o <<Answered("boot", NoError),
                                     Called("migrateSchema",
                                            {<<RebuildOption(script.version),
                                               script.rebuild>>})>>]
    /\ UNCHANGED <<registry, calls, issued, inflight, journal>>

\* A script that goes on to migrate after a failed boot.
BootRejectsIgnored(e) ==
    /\ script.pc = "boot"
    /\ script' = [script EXCEPT
                    !.pc = "migrateSchema",
                    !.trace = @ \o <<Answered("boot", e),
                                     Called("migrateSchema",
                                            {<<RebuildOption(script.version),
                                               script.rebuild>>})>>]
    /\ UNCHANGED <<registry, calls, issued, inflight, journal>>

\* await app.boot() rejects: migrate() rejects, and the catch handler exits
BootRejects(e) ==
    /\ script.pc = "boot"
    /\ script' = [script EXCEPT
                    !.pc = "exited",
                    !.trace = @ \o <<Answered("boot", e), Exited(1)>>]
    /\ UNCHANGED <<registry, calls, issued, inflight, journal>>

\* await app.migrateSchema(...) resolves: process.exit(0), or the return
MigrateResolves ==
    /\ script.pc = "migrateSchema"
    /\ script' = IF script.version = FirstVersion
                 THEN [script EXCEPT
                         !.pc = "exited",
                         !.trace = @ \o <<Answered("migrateSchema", NoError), Exited(0)>>]
                 ELSE [script EXCEPT
                         !.pc = "returned",
                         !.trace = Append(@, Answered("migrateSchema", NoError))]
    /\ UNCHANGED <<registry, calls, issued, inflight, journal>>

\* await app.migrateSchema(...) rejects: the catch handler exits
MigrateRejects(e) ==
    /\ script.pc = "migrateSchema"
    /\ script' = [script EXCEPT
                    !.pc = "exited",
                    !.trace = @ \o <<Answered("migrateSchema", e), Exited(1)>>]
    /\ UNCHANGED <<registry, calls, issued, inflight, journal>>

(***************************************************************************)
(* The inputs: the servers and bindings the application's user registers.  *)
(***************************************************************************)
ServerNames == {"RestServer", "GrpcServer"}
OBSERVERS == "observers"

\* The user's own bindings are keyed observers.1, observers.2, ... in the
\* order of their registration.
NextObserverKey ==
    Key(OBSERVERS, 1 + Cardinality({k \in Keys(registry) : k[1] = OBSERVERS}))

ServerTagValues == {EmptyStr, StrV0, StrV1, StrV10, StrV2, StrUpperV, SERVER_TAG_VALUE}
LifeCycleTagValues == {EmptyStr, LIFE_CYCLE_OBSERVER_TAG_VALUE}

LifeCycleTag == {<<LIFE_CYCLE_OBSERVER_TAG, LIFE_CYCLE_OBSERVER_TAG_VALUE>>}
ServerTag(v) == {<<SERVER_TAG, v>>}

\* Every tag map over the two tags the coordinator reads.
TagMaps ==
    {lc \cup sv :
        lc \in {{}} \cup {{<<LIFE_CYCLE_OBSERVER_TAG, v>>} : v \in LifeCycleTagValues},
        sv \in {{}} \cup {ServerTag(v) : v \in ServerTagValues}}

\* Every configuration of one binding.
Configurations ==
    [type : BindingTypes, scope : BindingScopes, tagMap : TagMaps, value : Values]

Configuration(type, scope, tagMap, value) ==
    [type |-> type, scope |-> scope, tagMap |-> tagMap, value |-> value]

\* An observer, a server and a value that is no observer.
FewConfigurations ==
    { Configuration(CLASS_TYPE, SINGLETON, LifeCycleTag, OBSERVER),
      Configuration(CLASS_TYPE, SINGLETON, ServerTag(StrV1), OBSERVER),
      Configuration(CLASS_TYPE, SINGLETON, LifeCycleTag, PLAIN) }

\* The configurations combined in the registries a pass is checked over.
Catalogue ==
    FewConfigurations \cup
    { Configuration(CLASS_TYPE, SINGLETON, ServerTag(StrV2), OBSERVER),
      Configuration(CLASS_TYPE, SINGLETON, LifeCycleTag \cup ServerTag(StrV10), OBSERVER),
      Configuration(CLASS_TYPE, SINGLETON, LifeCycleTag \cup ServerTag(EmptyStr), OBSERVER),
      Configuration(CLASS_TYPE, TRANSIENT, ServerTag(StrV0), OBSERVER) }

Register(names, configurations) ==
    \/ \E name \in names : server(ObserverClass(name), NoName)
    \/ \E c \in configurations : bind(NextObserverKey, c.type, c.scope, c.tagMap, c.value)

\* A start() or stop() call is issued.
Issue ==
    \/ start
    \/ stop

\* A promise that a call awaits settles.
Settle ==
    \/ \E n \in 1..Len(calls) : GetResolves(n)
    \/ \E n \in 1..Len(calls), e \in Errors : GetRejects(n, e)
    \/ \E n \in 1..Len(calls) : OperationResolves(n)
    \/ \E n \in 1..Len(calls), e \in Errors : OperationRejects(n, e)

AllSettled == \A n \in 1..Len(calls) : Settled(calls[n])

(***************************************************************************)
(* Spec: the application's user registers a server and a few bindings,    *)
(* and issues start() and stop() calls, awaiting each call before the next *)
(* registration or call.                                                   *)
(***************************************************************************)
Next ==
    \/ AllSettled /\ Register({"RestServer"}, FewConfigurations)
    \/ AllSettled /\ Issue
    \/ Settle

Spec == Init /\ [][Next]_vars

(***************************************************************************)
(* SpecPass: one start() or stop() call over a registry of servers and of  *)
(* bindings of the catalogue, registered before or during the call.        *)
(***************************************************************************)
NextPass ==
    \/ Register(ServerNames, Catalogue)
    \/ issued = 0 /\ Issue
    \/ Settle

SpecPass == Init /\ [][NextPass]_vars

(***************************************************************************)
(* SpecMount: components are mounted, by their class names and by given    *)
(* names, and one start() or stop() call is issued at any time.            *)
(***************************************************************************)
AuthComponent ==
    Class("AuthComponent", FALSE, << >>, << >>, <<Key("authentication", "strategy")>>)
CacheComponent == ObserverClass("CacheComponent")
RestComponent ==
    Class("RestComponent", FALSE, <<PlainClass("PingController")>>,
          <<ObserverClass("RestServer")>>, << >>)

ComponentClasses == {AuthComponent, CacheComponent, RestComponent}
ComponentNames == {NoName, Named(""), Named("CacheComponent")}

NextMount ==
    \/ \E ctor \in ComponentClasses, name \in ComponentNames : component(ctor, name)
    \/ issued = 0 /\ Issue
    \/ Settle

SpecMount == Init /\ [][NextMount]_vars

(***************************************************************************)
(* SpecServers: servers are registered, by their class names and by given  *)
(* names, and looked up by class and by name.                              *)
(***************************************************************************)
ServerClasses == {ObserverClass("RestServer"), ObserverClass("")}
GivenNames == {"", "v1API", "RestServer"}
OptionalNames == {NoName} \cup {Named(n) : n \in GivenNames}
Targets == {ClassTarget(c) : c \in ServerClasses} \cup {StringTarget(n) : n \in GivenNames}

NextServers ==
    \/ \E ctor \in ServerClasses, name \in OptionalNames : server(ctor, name)
    \/ \E target \in Targets : getServer(target)

SpecServers == Init /\ [][NextServers]_vars

(***************************************************************************)
(* SpecLive: one start() or stop() call in which every resolution          *)
(* succeeds and every start and stop that completes succeeds.  A promise   *)
(* that can settle does settle, except that of a server's start or stop,   *)
(* which may stay pending for ever.                                        *)
(***************************************************************************)
MayHang(key) == key[1] = SERVERS

Resolution == \E n \in 1..Len(calls) : GetResolves(n)
Completion == \E n \in 1..Len(calls) : OperationResolves(n)
SureCompletion ==
    \E n \in 1..Len(calls) :
        /\ OperationResolves(n)
        /\ ~MayHang(calls[n].bindings[calls[n].i].key)

NextLive ==
    \/ Register({"RestServer"}, FewConfigurations)
    \/ issued = 0 /\ Issue
    \/ Resolution
    \/ Completion

SpecLive ==
    Init /\ [][NextLive]_vars /\ WF_vars(Resolution) /\ WF_vars(SureCompletion)

(***************************************************************************)
(* SpecMigrate: one run of the migrate script, of either version, with any *)
(* argument list.                                                          *)
(***************************************************************************)
Tokens == {"migrate", "--rebuild", "--rebuild=1"}
ArgLists == UNION {[1..n -> Tokens] : n \in 0..MaxArgs}

NextMigrate ==
    \/ \E version \in Versions, args \in ArgLists : migrate(version, args)
    \/ BootResolves
    \/ \E e \in Errors : BootRejects(e)
    \/ MigrateResolves
    \/ \E e \in Errors : MigrateRejects(e)

SpecMigrate == Init /\ [][NextMigrate]_vars

(***************************************************************************)
(* SpecSnapshot: start() and stop() calls, each awaited before the next,   *)
(* and a server and observers that are registered before the first call    *)
(* or while a call is in progress.                                         *)
(***************************************************************************)
OneConfiguration == {Configuration(CLASS_TYPE, SINGLETON, LifeCycleTag, OBSERVER)}

NextSnapshot ==
    \/ (issued = 0 \/ ~AllSettled) /\ Register({"RestServer"}, OneConfiguration)
    \/ AllSettled /\ Issue
    \/ Settle

SpecSnapshot == Init /\ [][NextSnapshot]_vars

(***************************************************************************)
(* SpecOne: one binding of any configuration, and start() and stop() calls *)
(* issued whether or not the earlier calls have settled.                   *)
(***************************************************************************)
InitOne ==
    /\ \E c \in Configurations :
          registry = << To(NewBinding(APPLICATION_INSTANCE), OBSERVER),
                        To(NewBinding(APPLICATION_CONFIG), PLAIN),
                        Binding(Key(OBSERVERS, 1), c.type, c.scope, c.tagMap, c.value) >>
    /\ calls = << >>
    /\ issued = 0
    /\ inflight = {}
    /\ journal = << >>
    /\ script = NotRun

NextOne == Issue \/ Settle

SpecOne == InitOne /\ [][NextOne]_vars

(***************************************************************************)
(* The vocabulary of the properties.                                       *)
(***************************************************************************)
CallIds == 1..Len(calls)

SeqSet(s) == {s[k] : k \in 1..Len(s)}

\* The keys of a call's invocations, in order.
LogKeys(c) == [j \in 1..Len(c.log) |-> c.log[j][2]]

\* The binding registered under a key.
Registered(key) == CHOOSE b \in SeqSet(registry) : b.key = key

\* The place of a key in the array a call iterates over.
Position(c, key) == CHOOSE j \in 1..Len(c.bindings) : c.bindings[j].key = key

\* The bindings a call selected, and those of them that resolve to observers.
Selected(c) == SeqSet(c.bindings)
Observers(c) == {b \in Selected(c) : b.value = OBSERVER}

\* A binding is a server when it carries a non-empty server-tag value.
HasServerValue(b) == \E p \in b.tagMap : p[1] = SERVER_TAG /\ p[2] # EmptyStr
ServerValue(b) == (CHOOSE p \in b.tagMap : p[1] = SERVER_TAG)[2]

\* The bindings a call leaves untouched from place k of its order on.
UntouchedFrom(c, k) ==
    \A j \in k..Len(c.bindings) :
        /\ c.bindings[j].key \notin SeqSet(c.resolved)
        /\ c.bindings[j].key \notin SeqSet(LogKeys(c))

(***************************************************************************)
(* C1: a start() call invokes start on every selected observer whose       *)
(* server-tag value is empty or absent before it invokes start on any      *)
(* observer with a non-empty server-tag value, and invokes the latter in   *)
(* ascending lexicographic order of that value.                            *)
(***************************************************************************)
C1_StartOrder ==
    \A n \in CallIds :
        LET c == calls[n]
            keys == LogKeys(c)
        IN  c.op = "start" =>
            /\ \A j \in 1..Len(keys) :
                  HasServerValue(Registered(keys[j])) =>
                      \A b \in Observers(c) :
                          ~HasServerValue(b) => \E k \in 1..(j - 1) : keys[k] = b.key
            /\ \A j, k \in 1..Len(keys) :
                  (/\ j < k
                   /\ HasServerValue(Registered(keys[j]))
                   /\ HasServerValue(Registered(keys[k])))
                  => ~StrLess(ServerValue(Registered(keys[k])),
                              ServerValue(Registered(keys[j])))

\* A start() that ran to its end over an observer without a server value and
\* two servers of different values, registered in another order than started.
C1_Witness ==
    \E n \in CallIds :
        LET c == calls[n]
            keys == LogKeys(c)
        IN  /\ c.op = "start"
            /\ c.pc = "resolved"
            /\ Len(keys) = 3
            /\ ~HasServerValue(Registered(keys[1]))
            /\ HasServerValue(Registered(keys[2]))
            /\ StrLess(ServerValue(Registered(keys[2])), ServerValue(Registered(keys[3])))
            /\ \E p, q \in 1..Len(registry) :
                  p < q /\ registry[p].key = keys[3] /\ registry[q].key = keys[1]

(***************************************************************************)
(* C2: over one registry snapshot, when every start and stop succeeds, the *)
(* observers stop() invokes stop on are those start() invokes start on,    *)
(* in the reverse order.                                                   *)
(***************************************************************************)
C2_StopReversesStart ==
    \A n, m \in CallIds :
        LET s == LogKeys(calls[n])
            t == LogKeys(calls[m])
        IN  (/\ calls[n].op = "start" /\ calls[n].pc = "resolved"
             /\ calls[m].op = "stop" /\ calls[m].pc = "resolved"
             /\ calls[n].seen = calls[m].seen)
            => /\ Len(t) = Len(s)
               /\ \A j \in 1..Len(s) : t[j] = s[Len(s) + 1 - j]

C2_Witness ==
    \E n, m \in CallIds :
        /\ calls[n].op = "start" /\ calls[n].pc = "resolved"
        /\ calls[m].op = "stop" /\ calls[m].pc = "resolved"
        /\ calls[n].seen = calls[m].seen
        /\ Len(calls[n].log) = 3
        /\ Len(calls[m].log) = 3

(***************************************************************************)
(* C3: when an observer's start fails at place i of the start order, the   *)
(* call rejects; the observers at the places before i have had start       *)
(* invoked and completed, the call has invoked stop on nothing, and the    *)
(* bindings at the places after i were neither resolved nor invoked.       *)
(***************************************************************************)
C3_NoRollbackNoContinuation ==
    \A n \in CallIds : \A r \in SeqSet(calls[n].raised) :
        r.by = "start" =>
            LET c == calls[n]
                i == Position(c, r.key)
            IN  /\ c.pc = "rejected"
                /\ \A j \in 1..(i - 1) :
                      c.bindings[j].value = OBSERVER =>
                          /\ <<"start", c.bindings[j].key>> \in SeqSet(c.log)
                          /\ c.bindings[j].key \in SeqSet(c.completed)
                /\ \A j \in 1..Len(c.log) : c.log[j][1] # "stop"
                /\ r.key \notin SeqSet(c.completed)
                /\ UntouchedFrom(c, i + 1)

\* A start that failed in the middle of the order, after a completed start.
C3_Witness ==
    \E n \in CallIds : \E r \in SeqSet(calls[n].raised) :
        /\ r.by = "start"
        /\ LET c == calls[n]
               i == Position(c, r.key)
           IN  /\ i = 2
               /\ Len(c.bindings) = 3
               /\ Len(c.completed) = 1

(***************************************************************************)
(* C4, as stated: a binding of transient scope is never resolved or        *)
(* invoked by start() or stop(), whatever its type and tags.               *)
(***************************************************************************)
C4_TransientNeverResolved ==
    \A n \in CallIds, k \in 1..Len(registry) :
        registry[k].scope = TRANSIENT =>
            /\ registry[k].key \notin SeqSet(calls[n].resolved)
            /\ registry[k].key \notin SeqSet(LogKeys(calls[n]))

(***************************************************************************)
(* C4, amended: a binding of transient scope whose type is not constant    *)
(* (a class or a provider binding) is never resolved or invoked by start() *)
(* or stop(), whatever tags it carries.                                    *)
(***************************************************************************)
C4_TransientNonConstantNeverResolved ==
    \A n \in CallIds, k \in 1..Len(registry) :
        (registry[k].scope = TRANSIENT /\ registry[k].type # CONSTANT_TYPE) =>
            /\ registry[k].key \notin SeqSet(calls[n].resolved)
            /\ registry[k].key \notin SeqSet(LogKeys(calls[n]))
            /\ \A o \in inflight : o.key # registry[k].key

\* A start() and a stop() that have both settled over a transient provider
\* binding that carries both tags and resolves to an observer.
C4_Witness ==
    \E n, m \in CallIds, k \in 1..Len(registry) :
        /\ calls[n].op = "start" /\ Settled(calls[n])
        /\ calls[m].op = "stop" /\ Settled(calls[m])
        /\ registry[k].scope = TRANSIENT
        /\ registry[k].type = PROVIDER_TYPE
        /\ registry[k].value = OBSERVER
        /\ HasServerValue(registry[k])
        /\ \E p \in registry[k].tagMap : p[1] = LIFE_CYCLE_OBSERVER_TAG /\ p[2] # EmptyStr

(***************************************************************************)
(* C5: start() and stop() select every binding that is a constant or a     *)
(* singleton and whose tag map holds a lifecycle-observer tag or a server  *)
(* tag, whatever the tag's value, and select no other binding.             *)
(***************************************************************************)
C5_SelectsEveryTaggedBinding ==
    \A n \in CallIds : \A k \in 1..calls[n].seen :
        LET b == registry[k]
        IN  (b \in Selected(calls[n]))
            <=> /\ (b.type = CONSTANT_TYPE \/ b.scope = SINGLETON)
                /\ \E p \in b.tagMap : p[1] \in {LIFE_CYCLE_OBSERVER_TAG, SERVER_TAG}

(***************************************************************************)
(* C6: a server registered through server() or servers() before a start()  *)
(* or stop() is issued is selected by that call, and a call that runs to   *)
(* its end has invoked and awaited the server's start or stop.             *)
(***************************************************************************)
C6_ServersTakePart ==
    \A n \in CallIds : \A k \in 1..calls[n].seen :
        LET c == calls[n]
            b == registry[k]
        IN  b.key[1] = SERVERS =>
            /\ b \in Selected(c)
            /\ c.pc = "resolved" =>
                  /\ <<c.op, b.key>> \in SeqSet(c.log)
                  /\ b.key \in SeqSet(c.completed)

\* A server that a start() and a later stop() have started and stopped.
C6_Witness ==
    \E n, m \in CallIds, k \in 1..Len(registry) :
        /\ n < m
        /\ k <= calls[n].seen
        /\ registry[k].key[1] = SERVERS
        /\ calls[n].op = "start" /\ calls[n].pc = "resolved"
        /\ calls[m].op = "stop" /\ calls[m].pc = "resolved"
        /\ registry[k].key \in SeqSet(calls[n].completed)
        /\ registry[k].key \in SeqSet(calls[m].completed)

(***************************************************************************)
(* C7: when an observer's stop (or start) fails, the call rejects at once  *)
(* with the error the observer raised, and no binding later in the call's  *)
(* order is resolved or invoked.                                           *)
(***************************************************************************)
C7_FailFastSameError ==
    \A n \in CallIds : \A r \in SeqSet(calls[n].raised) :
        r.by \in {"start", "stop"} =>
            LET c == calls[n]
            IN  /\ c.op = r.by
                /\ c.pc = "rejected"
                /\ c.err = r.err
                /\ Len(c.raised) = 1
                /\ c.i = Position(c, r.key)
                /\ UntouchedFrom(c, c.i + 1)

\* A stop that failed with the second error before the end of the order.
C7_Witness ==
    \E n \in CallIds : \E r \in SeqSet(calls[n].raised) :
        /\ r.by = "stop"
        /\ r.err = "e2"
        /\ calls[n].i < Len(calls[n].bindings)
        /\ calls[n].err = "e2"

(***************************************************************************)
(* C8: within one start() or stop() call at most one observer operation is *)
(* in progress, and it was invoked only after every operation the call     *)
(* invoked before it had completed.                                        *)
(***************************************************************************)
C8_OneOperationPerCall ==
    \A n \in CallIds :
        LET c == calls[n]
            mine == {o \in inflight : o.call = c.id}
        IN  /\ Cardinality(mine) <= 1
            /\ \A o \in mine :
                  /\ o.op = c.op
                  /\ o.key = c.log[Len(c.log)][2]
                  /\ \A j \in 1..(Len(c.log) - 1) : c.log[j][2] \in SeqSet(c.completed)
            /\ Len(c.log) <= Len(c.completed) + 1

\* The third operation of a call in progress, the first two completed.
C8_Witness ==
    \E n \in CallIds :
        /\ Len(calls[n].completed) = 2
        /\ \E o \in inflight : o.call = calls[n].id

(***************************************************************************)
(* C9: whatever the interleaving of start() and stop() calls, at most one  *)
(* observer start/stop operation is in progress at any time.               *)
(***************************************************************************)
C9_NeverInParallel == Cardinality(inflight) <= 1

(***************************************************************************)
(* C10: when a stop() call invokes stop on an observer without a server    *)
(* value, every selected server has had its stop completed by that call;   *)
(* when a start() call invokes start on a server, every selected observer  *)
(* without a server value has had its start completed by that call.        *)
(***************************************************************************)
C10_ServersInsideObservers ==
    \A n \in CallIds :
        LET c == calls[n]
            keys == LogKeys(c)
        IN  \A j \in 1..Len(keys) :
                /\ (c.op = "stop" /\ ~HasServerValue(Registered(keys[j]))) =>
                      \A b \in Observers(c) :
                          HasServerValue(b) => b.key \in SeqSet(c.completed)
                /\ (c.op = "start" /\ HasServerValue(Registered(keys[j]))) =>
                      \A b \in Observers(c) :
                          ~HasServerValue(b) => b.key \in SeqSet(c.completed)

\* A stop() that ran to its end over two servers and then an observer that
\* was registered between them.
C10_Witness ==
    \E n \in CallIds :
        LET c == calls[n]
            keys == LogKeys(c)
        IN  /\ c.op = "stop"
            /\ c.pc = "resolved"
            /\ Len(keys) = 3
            /\ HasServerValue(Registered(keys[1]))
            /\ HasServerValue(Registered(keys[2]))
            /\ ~HasServerValue(Registered(keys[3]))
            /\ \E p, q, r \in 1..Len(registry) :
                  /\ p < q /\ q < r
                  /\ registry[q].key = keys[3]
                  /\ {registry[p].key, registry[r].key} = {keys[1], keys[2]}

(***************************************************************************)
(* The vocabulary of the properties on registrations.                      *)
(***************************************************************************)
\* The step is the call the journal's new last entry records.
Recorded(e) == journal' = Append(journal, e)

\* The component() calls recorded, by their places in the journal.
ComponentCalls == {k \in 1..Len(journal) : journal[k].op = "component"}

\* The registry grows at its end only.
IsPrefix(s, t) == Len(s) <= Len(t) /\ \A k \in 1..Len(s) : s[k] = t[k]

DeclaredKeys(ctor) == {Declared(ctor)[k].key : k \in 1..Len(Declared(ctor))}

C12_ComponentBinding ==
    \A k \in ComponentCalls :
        LET e == journal[k]
            key == Key(COMPONENTS, IF e.name \in {NoName, Named("")} THEN e.ctor.name
                                   ELSE CHOOSE n \in e.name : TRUE)
        IN  e.error = NoError =>
              /\ key \in Keys(registry)
              /\ Registered(key).scope = SINGLETON
              /\ \E p \in Registered(key).tagMap : p[1] = COMPONENT_TAG
              /\ \A n \in CallIds :
                    (\E j \in 1..calls[n].seen : registry[j].key = key) =>
                        (Registered(key) \in Selected(calls[n]) <=> e.ctor.observer)

\* A start() that has run to its end after a component of an observer class
\* was mounted under a given name and one of another class under its own.
C12_Witness ==
    \E i, j \in ComponentCalls, n \in CallIds :
        /\ journal[i].error = NoError /\ journal[i].ctor.observer
        /\ journal[i].name \notin {NoName, Named("")}
        /\ journal[j].error = NoError /\ ~journal[j].ctor.observer
        /\ journal[j].name = Named("")
        /\ calls[n].op = "start" /\ calls[n].pc = "resolved"
        /\ calls[n].seen = Len(registry)
        /\ journal[i].key \in SeqSet(calls[n].completed)
        /\ journal[j].key \notin SeqSet(calls[n].resolved)

(***************************************************************************)
(* The server() and getServer() calls recorded, and the lookups that are   *)
(* for a registration: by the class when no name was given, by the name    *)
(* when one was.                                                           *)
(***************************************************************************)
ServerCalls == {k \in 1..Len(journal) : journal[k].op = "server"}
GetServerCalls == {k \in 1..Len(journal) : journal[k].op = "getServer"}

TargetKey(target) ==
    Key(SERVERS, IF target.typeof = "string" THEN target.str ELSE target.ctor.name)

(***************************************************************************)
(* C13, as stated: server(ctor, name) binds under servers.<name> when a    *)
(* name is given and under servers.<ctor.name> when none is; getServer     *)
(* resolves servers.<target> for a string and servers.<target.name> for a  *)
(* class; so a later getServer(ctor) returns the server of server(ctor)    *)
(* and a later getServer(name) that of server(ctor, name), for every class *)
(* and every name.                                                         *)
(***************************************************************************)
C13_ServerKeys ==
    /\ \A i \in ServerCalls :
          /\ journal[i].key =
                Key(SERVERS, IF journal[i].name = NoName THEN journal[i].ctor.name
                             ELSE CHOOSE n \in journal[i].name : TRUE)
          /\ journal[i].key \in Keys(registry)
    /\ \A j \in GetServerCalls : journal[j].key = TargetKey(journal[j].target)
    /\ \A i \in ServerCalls, j \in GetServerCalls :
          (/\ i < j
           /\ \/ journal[i].name = NoName /\ journal[j].target = ClassTarget(journal[i].ctor)
              \/ \E n \in journal[i].name : journal[j].target = StringTarget(n))
          => /\ journal[j].error = NoError
             /\ journal[j].key = journal[i].key

(***************************************************************************)
(* C13, amended: the same for every class and every name that is not the   *)
(* empty string; server(ctor, '') binds under servers.<ctor.name> as       *)
(* server(ctor) does, and getServer(ctor) returns its server.              *)
(***************************************************************************)
C13_ServerKeysNonEmptyName ==
    /\ \A i \in ServerCalls :
          /\ journal[i].key =
                Key(SERVERS, IF journal[i].name \in {NoName, Named("")}
                             THEN journal[i].ctor.name
                             ELSE CHOOSE n \in journal[i].name : TRUE)
          /\ journal[i].key \in Keys(registry)
    /\ \A j \in GetServerCalls : journal[j].key = TargetKey(journal[j].target)
    /\ \A i \in ServerCalls, j \in GetServerCalls :
          (/\ i < j
           /\ \/ /\ journal[i].name \in {NoName, Named("")}
                 /\ journal[j].target = ClassTarget(journal[i].ctor)
              \/ \E n \in journal[i].name :
                    n # "" /\ journal[j].target = StringTarget(n))
          => /\ journal[j].error = NoError
             /\ journal[j].key = journal[i].key

\* A server registered with the empty name and one with a name, and after
\* them the first looked up by its class and the second by its name.
C13_Witness ==
    \E i, j, k, l \in 1..Len(journal) :
        /\ i < j /\ j < k /\ k < l
        /\ journal[i].op = "server" /\ journal[i].name = Named("")
        /\ journal[j].op = "server" /\ journal[j].name = Named("v1API")
        /\ journal[k].op = "getServer"
        /\ journal[k].target = ClassTarget(journal[i].ctor)
        /\ journal[k].error = NoError
        /\ journal[l].op = "getServer"
        /\ journal[l].target = StringTarget("v1API")
        /\ journal[l].error = NoError

(***************************************************************************)
(* C14: of two observers with equal server-tag values (an absent tag       *)
(* counting as the empty value), a start() call invokes first the one that *)
(* the registry's find() returns first, and a stop() call the one that it  *)
(* returns last.                                                           *)
(***************************************************************************)
SortValue(b) ==
    IF \E p \in b.tagMap : p[1] = SERVER_TAG
    THEN (CHOOSE p \in b.tagMap : p[1] = SERVER_TAG)[2]
    ELSE EmptyStr

\* The place of a key in the registry, which is the order of find().
Discovered(key) == CHOOSE k \in 1..Len(registry) : registry[k].key = key

C14_TiesInDiscoveryOrder ==
    \A n \in CallIds :
        LET c == calls[n]
            keys == LogKeys(c)
        IN  \A j, k \in 1..Len(keys) :
                (j < k /\ SortValue(Registered(keys[j])) = SortValue(Registered(keys[k])))
                => IF c.op = "start"
                   THEN Discovered(keys[j]) < Discovered(keys[k])
                   ELSE Discovered(keys[j]) > Discovered(keys[k])

\* A stop() that ran to its end over two servers of one tag value and an
\* observer of an empty tag value that was registered between the two.
C14_Witness ==
    \E n \in CallIds :
        LET c == calls[n]
            keys == LogKeys(c)
        IN  /\ c.op = "stop"
            /\ c.pc = "resolved"
            /\ Len(keys) = 3
            /\ SortValue(Registered(keys[1])) = SERVER_TAG_VALUE
            /\ SortValue(Registered(keys[2])) = SERVER_TAG_VALUE
            /\ HasTag(Registered(keys[3]), SERVER_TAG)
            /\ SortValue(Registered(keys[3])) = EmptyStr
            /\ Discovered(keys[2]) < Discovered(keys[3])
            /\ Discovered(keys[3]) < Discovered(keys[1])

(***************************************************************************)
(* C15: on a selected binding that resolves to a value without the life    *)
(* cycle capability a start() or stop() call invokes nothing, waits for    *)
(* nothing and throws nothing, and it goes on: a call that has run to its  *)
(* end has started, or stopped, every capable observer that comes after    *)
(* such a binding in its order.                                            *)
(***************************************************************************)
C15_IncapableValuesSkipped ==
    \A n \in CallIds :
        LET c == calls[n]
        IN  \A j \in 1..Len(c.bindings) :
                c.bindings[j].value # OBSERVER =>
                    /\ c.bindings[j].key \notin SeqSet(LogKeys(c))
                    /\ \A o \in inflight : o.call = c.id => o.key # c.bindings[j].key
                    /\ \A r \in SeqSet(c.raised) :
                          r.key = c.bindings[j].key => r.by = "get"
                    /\ c.i = j => c.pc # "await"
                    /\ c.pc = "resolved" =>
                          \A k \in (j + 1)..Len(c.bindings) :
                              c.bindings[k].value = OBSERVER =>
                                  /\ <<c.op, c.bindings[k].key>> \in SeqSet(c.log)
                                  /\ c.bindings[k].key \in SeqSet(c.completed)

\* A start() that ran to its end over a binding that resolves to a value
\* without the capability and then two observers, both started.
C15_Witness ==
    \E n \in CallIds :
        LET c == calls[n]
        IN  /\ c.op = "start"
            /\ c.pc = "resolved"
            /\ Len(c.bindings) = 3
            /\ c.bindings[1].value = PLAIN
            /\ c.resolved[1] = c.bindings[1].key
            /\ Len(c.completed) = 2

(***************************************************************************)
(* C16: when every resolution and every observer's start completes         *)
(* successfully, a start() call resolves in the end, and it has then       *)
(* invoked start once, and only once, on every eligible observer that has  *)
(* the capability, and on nothing else; and for as long as an observer's   *)
(* start has not completed, the start() call has not settled and has       *)
(* neither resolved nor started any later binding.                         *)
(***************************************************************************)
\* The eligible bindings of a call that resolve to observers.
Eligible(c) ==
    {registry[k] : k \in {j \in 1..c.seen :
                            /\ IsLifeCycleObserverBinding(registry[j])
                            /\ registry[j].value = OBSERVER}}

StartedOnce(c) ==
    /\ \A b \in Eligible(c) :
          Cardinality({j \in 1..Len(c.log) : c.log[j] = <<"start", b.key>>}) = 1
    /\ \A j \in 1..Len(c.log) : \E b \in Eligible(c) : c.log[j] = <<"start", b.key>>

C16_StartTerminates ==
    /\ (\E n \in CallIds :
            /\ calls[n].op = "start"
            /\ \A b \in Eligible(calls[n]) : ~MayHang(b.key))
        ~> (\E n \in CallIds :
               /\ calls[n].op = "start"
               /\ calls[n].pc = "resolved"
               /\ StartedOnce(calls[n]))
    /\ [](\A n \in CallIds : \A o \in inflight :
              (o.call = calls[n].id /\ o.op = "start") =>
                  /\ calls[n].pc = "await"
                  /\ calls[n].bindings[calls[n].i].key = o.key
                  /\ UntouchedFrom(calls[n], calls[n].i + 1))

\* A start() that resolved after it started three observers, none of which
\* may hang.
C16_Witness ==
    \E n \in CallIds :
        /\ calls[n].op = "start"
        /\ calls[n].pc = "resolved"
        /\ Cardinality(Eligible(calls[n])) = 3
        /\ Len(calls[n].completed) = 3
        /\ \A b \in Eligible(calls[n]) : ~MayHang(b.key)

(***************************************************************************)
(* C17: no step of a start() or stop() pass, from the call to the          *)
(* settling of its promise, changes the registry: the bindings, their      *)
(* keys, scopes, types and tag maps, and their order, which is the order   *)
(* of find(), are after the step what they were before it.                 *)
(***************************************************************************)
C17_PassLeavesRegistry ==
    [][(calls' # calls \/ inflight' # inflight \/ issued' # issued)
          => registry' = registry]_vars

\* A stop() that ran to its end over three observers that the registry holds
\* in another order than the sorted one.
C17_Witness ==
    \E n \in CallIds :
        /\ calls[n].op = "stop"
        /\ calls[n].pc = "resolved"
        /\ Len(calls[n].completed) = 3
        /\ \E p, q \in 1..Len(registry) :
              /\ p < q
              /\ {registry[p], registry[q]} \subseteq Selected(calls[n])
              /\ TagCompare(registry[p], registry[q]) > 0

(***************************************************************************)
(* C18: the migrate script calls app.migrateSchema only after app.boot has *)
(* resolved, with the rebuild option true exactly when "--rebuild" is one  *)
(* of the arguments; and when boot or migrateSchema rejects, the script    *)
(* exits with code 1, after a failed boot without a call of migrateSchema. *)
(***************************************************************************)
Trace == IF script.pc = "not run" THEN << >> ELSE script.trace

C18_MigrateAfterBoot ==
    \A k \in 1..Len(Trace) :
        LET t == Trace[k]
        IN  /\ (t.ev = "call" /\ t.fn = "migrateSchema") =>
                  /\ \E j \in 1..(k - 1) :
                        /\ Trace[j].ev = "settled" /\ Trace[j].fn = "boot"
                        /\ Trace[j].err = NoError
                  /\ \E flag \in BOOLEAN :
                        /\ t.options = {<<RebuildOption(script.version), flag>>}
                        /\ flag <=> \E a \in 1..Len(script.args) :
                                        script.args[a] = "--rebuild"
            /\ (t.ev = "settled" /\ t.err # NoError) =>
                  /\ script.pc = "exited"
                  /\ Trace[Len(Trace)] = Exited(1)
                  /\ k = Len(Trace) - 1
                  /\ t.fn = "boot" =>
                        \A j \in 1..Len(Trace) :
                            ~(Trace[j].ev = "call" /\ Trace[j].fn = "migrateSchema")

\* A run of the first version with "--rebuild" as its second argument, whose
\* migration was called for a rebuild and failed.
C18_Witness ==
    /\ script.pc = "exited"
    /\ script.version = FirstVersion
    /\ Len(script.args) = 2
    /\ script.args[1] # "--rebuild"
    /\ script.args[2] = "--rebuild"
    /\ \E k \in 1..Len(script.trace) :
          /\ script.trace[k].ev = "call"
          /\ script.trace[k].fn = "migrateSchema"
          /\ script.trace[k].options = {<<"dropExistingSchema", TRUE>>}
    /\ \E k \in 1..Len(script.trace) :
          /\ script.trace[k].ev = "settled"
          /\ script.trace[k].fn = "migrateSchema"
          /\ script.trace[k].err = "e2"

(***************************************************************************)
(* C19: a start() call that runs to its end has invoked start on every     *)
(* eligible observer that has the capability, also on those an earlier     *)
(* start() has started with no stop() since; and a stop() call that runs   *)
(* to its end has invoked stop on every one of them, also on those that    *)
(* no start() has started.                                                 *)
(***************************************************************************)
C19_NoStartedState ==
    \A n \in CallIds :
        LET c == calls[n]
        IN  c.pc = "resolved" =>
                \A b \in Eligible(c) :
                    /\ <<c.op, b.key>> \in SeqSet(c.log)
                    /\ b.key \in SeqSet(c.completed)

\* Two start() calls, one right after the other, that both started the same
\* two observers or more.
C19_Witness ==
    \E n, m \in CallIds :
        /\ calls[m].id = calls[n].id + 1
        /\ calls[n].op = "start" /\ calls[n].pc = "resolved"
        /\ calls[m].op = "start" /\ calls[m].pc = "resolved"
        /\ Len(calls[n].completed) >= 2
        /\ calls[m].completed = calls[n].completed

(***************************************************************************)
(* C20: the bindings a start() or stop() call works through, and their     *)
(* order, are those of the discovery query made when the call was issued:  *)
(* the call resolves them in that order, a binding registered after the    *)
(* query is neither resolved, started nor stopped by the call, and the     *)
(* call issued next selects it when it is eligible, and has started or     *)
(* stopped it when it has run to its end.                                  *)
(***************************************************************************)
\* What the discovery query finds in the registry's first k bindings.
FoundIn(k) ==
    LET known == SubSeq(registry, 1, k)
        found == SelectSeq(known, IsLifeCycleObserverBinding)
    IN  {found[j] : j \in 1..Len(found)}

C20_SnapshotAtIssue ==
    \A n \in CallIds :
        LET c == calls[n]
        IN  /\ Selected(c) = FoundIn(c.seen)
            /\ Len(c.resolved) <= Len(c.bindings)
            /\ \A j \in 1..Len(c.resolved) : c.resolved[j] = c.bindings[j].key
            /\ \A k \in (c.seen + 1)..Len(registry) :
                  /\ registry[k].key \notin SeqSet(c.resolved)
                  /\ registry[k].key \notin SeqSet(LogKeys(c))
                  /\ \A m \in CallIds :
                        (calls[m].id = c.id + 1 /\ k <= calls[m].seen
                         /\ IsLifeCycleObserverBinding(registry[k])) =>
                            /\ registry[k] \in Selected(calls[m])
                            /\ (calls[m].pc = "resolved" /\ registry[k].value = OBSERVER)
                                  => registry[k].key \in SeqSet(calls[m].completed)

\* A start() that ran to its end while a server was registered, and the
\* stop() issued next, which has stopped that server and what start() started.
C20_Witness ==
    \E n, m \in CallIds, k \in 1..Len(registry) :
        /\ calls[m].id = calls[n].id + 1
        /\ calls[n].op = "start" /\ calls[n].pc = "resolved"
        /\ calls[m].op = "stop" /\ calls[m].pc = "resolved"
        /\ Len(calls[n].completed) = 2
        /\ calls[n].seen < k /\ k <= calls[m].seen
        /\ registry[k].key[1] = SERVERS
        /\ registry[k].key \notin SeqSet(calls[n].resolved)
        /\ registry[k].key \in SeqSet(calls[m].completed)
        /\ Len(calls[m].completed) = 3

====
